---- MODULE Spec2Model ----
(***************************************************************************)
(* nanosearch: the index writer (full build) and the incremental updater   *)
(* over a working tree, a git repository and the on-disk state .ns/index   *)
(* and .ns/meta.json.                                                      *)
(*                                                                         *)
(* Time is counted in ticks, TicksPerSec ticks to the second: file mtimes  *)
(* are ticks, indexed_at is formatted from whole seconds.  The index is    *)
(* the engine's list of segments; a document keeps its doc id inside its   *)
(* segment and is marked dead by a delete-by-term.                         *)
(***************************************************************************)
EXTENDS Integers, Sequences, FiniteSets, TLC

\* ---------------------------------------------------------------- bounds
MaxTime == 2
MaxVer == 2
MaxCommits == 2
MaxDocs == 3
MaxEdits == 3
TicksPerSec == 2
MaxFileLines == 3
MaxWindow == 2
MaxCap == 3
UsizeBits == 4

\* ------------------------------------------------------ program constants
SCHEMA_VERSION == 2

PathSeq == <<"a.rs", "b.rs">>
Paths == {PathSeq[i] : i \in 1..Len(PathSeq)}
Kinds == {"text", "binary"}

VARIABLES
  now,        \* the clock, in ticks
  wt,         \* working tree: path -> [exists, ver, mtime, kind]
  ignored,    \* paths matched by .gitignore
  commits,    \* git history: commit id -> tree (path -> content version, 0 absent)
  tracked,    \* paths in git's index
  gitFails,   \* the git subprocesses that exit non-zero in this repository
  indexExists,\* .ns/index holds an openable index
  segs,       \* committed segments of .ns/index
  meta,       \* .ns/meta.json
  pc,         \* position of the running ns process
  job,        \* locals of the running ns process
  edits,      \* number of changes the user has made to the tree and to git
  last,       \* what the last finished run returned
  since,      \* the runs that finished, and the one change made, since the tree last changed otherwise
  lastCommit, \* the segments published by the last successful engine commit
  call        \* a call of a pure function of ns: its arguments and what it returned

vars == <<now, wt, ignored, commits, tracked, gitFails, indexExists, segs, meta, pc, job,
          edits, last, since, lastCommit, call>>

\* ------------------------------------------------------------ sequences
Range(s) == {s[i] : i \in 1..Len(s)}

Contains(s, x) == \E i \in 1..Len(s) : s[i] = x

RECURSIVE SumSeq(_)
SumSeq(s) == IF s = <<>> THEN 0 ELSE Head(s) + SumSeq(Tail(s))

Perms(S) == {f \in [1..Cardinality(S) -> S] : \A x \in S : \E i \in DOMAIN f : f[i] = x}

\* ------------------------------------------------------------- timestamps
\* writer.rs utc_timestamp_iso8601: whole seconds since the epoch, broken down
\* into <<year, month, day, hours, minutes, seconds>> by the civil calendar.
TimestampOfSecs(secs) ==
  LET days == secs \div 86400
      time_of_day == secs % 86400
      hours == time_of_day \div 3600
      minutes == (time_of_day % 3600) \div 60
      seconds == time_of_day % 60
      z == days + 719468
      era == z \div 146097
      doe == z - era * 146097
      yoe == (doe - doe \div 1460 + doe \div 36524 - doe \div 146096) \div 365
      y0 == yoe + era * 400
      doy == doe - (365 * yoe + yoe \div 4 - yoe \div 100)
      mp == (5 * doy + 2) \div 153
      d == doy - (153 * mp + 2) \div 5 + 1
      m == IF mp < 10 THEN mp + 3 ELSE mp - 9
      y == IF m <= 2 THEN y0 + 1 ELSE y0
  IN <<y, m, d, hours, minutes, seconds>>

\* SystemTime::now().duration_since(UNIX_EPOCH).as_secs() drops the sub-second part.
utc_timestamp_iso8601(t) == TimestampOfSecs(t \div TicksPerSec)

\* incremental.rs parse_iso8601_to_system_time: the instant, in ticks, of a
\* timestamp; -1 stands for None (not three date parts and three time parts).
parse_iso8601_to_system_time(ts) ==
  IF Len(ts) # 6 THEN -1
  ELSE
    LET year == ts[1]
        month == ts[2]
        day == ts[3]
        y == IF month <= 2 THEN year - 1 ELSE year
        era == y \div 400
        yoe == y - era * 400
        m == IF month > 2 THEN month - 3 ELSE month + 9
        doy == (153 * m + 2) \div 5 + day - 1
        doe == yoe * 365 + yoe \div 4 - yoe \div 100 + doy
        days == era * 146097 + doe - 719468
        total_secs == days * 86400 + ts[4] * 3600 + ts[5] * 60 + ts[6]
    IN total_secs * TicksPerSec

\* ------------------------------------------------------------ working tree
NoFile == [exists |-> FALSE, ver |-> 0, mtime |-> 0, kind |-> "text"]

\* walker.rs walk_repo: the indexable files, in path order.
walk_repo ==
  SelectSeq(PathSeq, LAMBDA p : wt[p].exists /\ p \notin ignored /\ wt[p].kind = "text")

\* ---------------------------------------------------------------------- git
EmptyTree == [p \in Paths |-> 0]

HEAD == Len(commits)

\* writer.rs get_git_commit: Some(sha) when `git rev-parse HEAD` succeeds; 0 is None.
get_git_commit == HEAD

HeadTree == IF HEAD = 0 THEN EmptyTree ELSE commits[HEAD]

\* What git compares HEAD against in `git diff HEAD`: the tracked files present
\* in the working tree.
WorkTree == [p \in Paths |-> IF p \in tracked /\ wt[p].exists THEN wt[p].ver ELSE 0]

\* One line of `git diff --name-status`: <<status, path>> or <<status, old, new>>,
\* the status a sequence of characters.
StatusLine(old, new, p) ==
  IF old[p] = 0 /\ new[p] > 0 THEN <<<<"A">>, p>>
  ELSE IF old[p] > 0 /\ new[p] = 0 THEN <<<<"D">>, p>>
  ELSE IF old[p] # new[p] THEN <<<<"M">>, p>>
  ELSE <<>>

RECURSIVE DiffLines(_, _, _)
DiffLines(old, new, ps) ==
  IF ps = <<>> THEN <<>>
  ELSE LET l == StatusLine(old, new, Head(ps))
       IN (IF l = <<>> THEN <<>> ELSE <<l>>) \o DiffLines(old, new, Tail(ps))

\* With rename detection a deleted path and an added path of the same content
\* are reported as one R line.
RenamePairs(old, new) ==
  {pq \in Paths \X Paths :
     /\ old[pq[1]] > 0 /\ new[pq[1]] = 0
     /\ old[pq[2]] = 0 /\ new[pq[2]] > 0
     /\ old[pq[1]] = new[pq[2]]}

GitDiffNameStatus(old, new, renames) ==
  IF renames /\ RenamePairs(old, new) # {}
  THEN LET pq == CHOOSE x \in RenamePairs(old, new) : TRUE
           rest == SelectSeq(DiffLines(old, new, PathSeq),
                             LAMBDA l : l[2] # pq[1] /\ l[2] # pq[2])
       IN <<<<<<"R", "1", "0", "0">>, pq[1], pq[2]>>>> \o rest
  ELSE DiffLines(old, new, PathSeq)

\* `git ls-files --others --exclude-standard`
GitUntracked ==
  SelectSeq(PathSeq, LAMBDA p : wt[p].exists /\ p \notin tracked /\ p \notin ignored)

\* ------------------------------------------------------------ index engine
Doc(p, v) == [path |-> p, ver |-> v, alive |-> TRUE]

\* SegmentReader::num_docs: the documents of a segment that are not deleted.
NumDocs(seg) == Cardinality({i \in 1..Len(seg) : seg[i].alive})

\* A document count that takes max_doc, deleted documents included, for
\* num_docs.
TotalMaxDoc(ss) == SumSeq([i \in 1..Len(ss) |-> Len(ss[i])])

\* Searcher::num_docs
TotalNumDocs(ss) == SumSeq([i \in 1..Len(ss) |-> NumDocs(ss[i])])

\* Documents stored in the segments, deleted ones included.
StoredDocs(ss) == SumSeq([i \in 1..Len(ss) |-> Len(ss[i])])

\* Number of live documents of a path, with a given content version.
DocsOfPath(ss, p) ==
  SumSeq([i \in 1..Len(ss) |->
            Cardinality({k \in 1..Len(ss[i]) : ss[i][k].alive /\ ss[i][k].path = p})])

DocsOf(ss, p, v) ==
  SumSeq([i \in 1..Len(ss) |->
            Cardinality({k \in 1..Len(ss[i]) :
                           ss[i][k].alive /\ ss[i][k].path = p /\ ss[i][k].ver = v})])

\* IndexWriter::delete_term(path = p): every document added before the delete,
\* committed or pending, is marked deleted; it keeps its doc id.
DeleteInSeg(seg, p) ==
  [k \in 1..Len(seg) |-> IF seg[k].path = p THEN [seg[k] EXCEPT !.alive = FALSE] ELSE seg[k]]

delete_term(st, p) ==
  [old |-> [i \in 1..Len(st.old) |-> DeleteInSeg(st.old[i], p)],
   new |-> DeleteInSeg(st.new, p)]

\* IndexWriter::add_document: appended to the segment under construction.
add_document(st, d) == [st EXCEPT !.new = Append(st.new, d)]

\* IndexWriter::commit: publishes the new segment and the deletes; segments
\* left without a live document are dropped.
commit(st) ==
  SelectSeq(IF st.new = <<>> THEN st.old ELSE Append(st.old, st.new),
            LAMBDA seg : NumDocs(seg) > 0)

\* incremental.rs get_indexed_paths: per segment, the stored path of the doc
\* ids 0 .. num_docs-1.
get_indexed_paths(ss) ==
  UNION {{ss[i][k].path : k \in 1..NumDocs(ss[i])} : i \in 1..Len(ss)}

\* -------------------------------------------------------------- changesets
EmptyChanges == [added |-> <<>>, modified |-> <<>>, deleted |-> <<>>]

\* incremental.rs parse_name_status_output
RECURSIVE parse_name_status_output(_)
parse_name_status_output(lines) ==
  IF lines = <<>> THEN EmptyChanges
  ELSE
    LET parts == Head(lines)
        rest == parse_name_status_output(Tail(lines))
    IN IF Len(parts) < 2 THEN rest
       ELSE
         LET status == parts[1]
             path == parts[2]
             c == IF status = <<>> THEN "" ELSE status[1]
         IN CASE c = "A" -> [rest EXCEPT !.added = <<path>> \o @]
              [] c = "M" -> [rest EXCEPT !.modified = <<path>> \o @]
              [] c = "D" -> [rest EXCEPT !.deleted = <<path>> \o @]
              [] c = "R" -> [rest EXCEPT !.deleted = <<path>> \o @,
                                         !.added = (IF Len(parts) >= 3
                                                    THEN <<parts[3]>> ELSE <<>>) \o @]
              [] OTHER -> [rest EXCEPT !.modified = <<path>> \o @]

\* incremental.rs parse_git_diff: a non-zero exit gives the empty changeset.
parse_git_diff(old_ref, new_ref, ok, renames) ==
  IF ~ok THEN EmptyChanges
  ELSE parse_name_status_output(
         GitDiffNameStatus(commits[old_ref], commits[new_ref], renames))

\* incremental.rs filter_changeset
should_skip(p) == p \in {".ns", ".git"}

is_indexable(p) == ~should_skip(p) /\ wt[p].exists /\ wt[p].kind = "text"

filter_changeset(ch) ==
  [added |-> SelectSeq(ch.added, is_indexable),
   modified |-> SelectSeq(ch.modified, is_indexable),
   deleted |-> SelectSeq(ch.deleted, LAMBDA p : ~should_skip(p))]

\* incremental.rs merge_changesets
merge_changesets(base, other) ==
  LET existing == Range(base.added) \cup Range(base.modified) \cup Range(base.deleted)
      fresh(p) == p \notin existing
  IN [added |-> base.added \o SelectSeq(other.added, fresh),
      modified |-> base.modified \o SelectSeq(other.modified, fresh),
      deleted |-> base.deleted \o SelectSeq(other.deleted, fresh)]

\* The loop over the untracked files of detect_changes_git_uncommitted.
RECURSIVE classify_untracked(_, _, _, _)
classify_untracked(ch, untracked, indexed_paths, indexed_time) ==
  IF untracked = <<>> THEN ch
  ELSE
    LET path == Head(untracked)
        next ==
          IF Contains(ch.added, path) THEN ch
          ELSE IF path \in indexed_paths
          THEN IF indexed_time # -1 /\ wt[path].exists /\ wt[path].mtime > indexed_time
               THEN [ch EXCEPT !.modified = Append(@, path)]
               ELSE ch
          ELSE [ch EXCEPT !.added = Append(@, path)]
    IN classify_untracked(next, Tail(untracked), indexed_paths, indexed_time)

\* incremental.rs detect_changes_git_uncommitted; g holds the outcome of the
\* git subprocesses of this run.
detect_changes_git_uncommitted(indexed_paths, indexed_at, g) ==
  IF ~g.diffHead THEN EmptyChanges
  ELSE
    LET changes == parse_name_status_output(GitDiffNameStatus(HeadTree, WorkTree, g.renames))
    IN filter_changeset(
         IF g.lsFiles
         THEN classify_untracked(changes, GitUntracked, indexed_paths,
                                 parse_iso8601_to_system_time(indexed_at))
         ELSE changes)

\* incremental.rs detect_changes_git
detect_changes_git(old_commit, current_commit, indexed_paths, indexed_at, g) ==
  filter_changeset(
    merge_changesets(parse_git_diff(old_commit, current_commit, g.diffCommits, g.renames),
                     detect_changes_git_uncommitted(indexed_paths, indexed_at, g)))

\* incremental.rs detect_changes_mtime; order is the iteration order of the
\* HashSet of indexed paths.
detect_changes_mtime(m, ss, order) ==
  LET indexed_at == parse_iso8601_to_system_time(m.indexed_at)
      current_files == walk_repo
      current_paths == Range(current_files)
      indexed_paths == get_indexed_paths(ss)
  IN [added |-> SelectSeq(current_files, LAMBDA p : p \notin indexed_paths),
      modified |-> SelectSeq(current_files,
                     LAMBDA p : /\ p \in indexed_paths
                                /\ indexed_at # -1
                                /\ wt[p].mtime > indexed_at),
      deleted |-> SelectSeq(order,
                     LAMBDA p : p \in indexed_paths /\ p \notin current_paths)]

\* incremental.rs detect_changes
Strategy(m) ==
  IF m.git_commit # 0 /\ get_git_commit # 0
  THEN IF m.git_commit = get_git_commit THEN "git_uncommitted" ELSE "git"
  ELSE "mtime"

detect_changes(m, ss, g, order) ==
  IF m.git_commit # 0 /\ get_git_commit # 0
  THEN IF m.git_commit = get_git_commit
       THEN detect_changes_git_uncommitted(get_indexed_paths(ss), m.indexed_at, g)
       ELSE detect_changes_git(m.git_commit, get_git_commit, get_indexed_paths(ss),
                               m.indexed_at, g)
  ELSE detect_changes_mtime(m, ss, order)

\* ------------------------------------------------------------- meta.json
NoMeta ==
  [state |-> "none", schema_version |-> 0, indexed_at |-> <<>>, git_commit |-> 0,
   file_count |-> 0]

\* A meta.json that was created (truncated) and not yet filled.
TornMeta == [NoMeta EXCEPT !.state = "torn"]

\* writer.rs IndexMeta, as build_index and run_incremental fill it.
IndexMeta(file_count) ==
  [state |-> "ok", schema_version |-> SCHEMA_VERSION,
   indexed_at |-> utc_timestamp_iso8601(now), git_commit |-> get_git_commit,
   file_count |-> file_count]

\* An open_index that does not compare schema_version with SCHEMA_VERSION.
open_index_NoVersionCheck ==
  IF meta.state = "none" THEN "io"
  ELSE IF meta.state = "torn" THEN "json"
  ELSE IF ~indexExists THEN "tantivy"
  ELSE "ok"

\* writer.rs open_index: "ok", or the error it returns.
open_index ==
  IF meta.state = "none" THEN "io"
  ELSE IF meta.state = "torn" THEN "json"
  ELSE IF meta.schema_version # SCHEMA_VERSION THEN "schema"
  ELSE IF ~indexExists THEN "tantivy"
  ELSE "ok"

\* ------------------------------------------------------------------ process
NoCall == [fn |-> "none", done |-> FALSE]

NoJob ==
  [op |-> "none", files |-> <<>>, changes |-> EmptyChanges, strat |-> "none",
   gitfail |-> FALSE, unreadable |-> {}, hadMeta |-> FALSE, new_meta |-> NoMeta,
   ops |-> <<>>, killedAt |-> "none",
   second |-> [op |-> "none", outcome |-> "none", reached |-> FALSE],
   seen |-> [files_searched |-> 0, num_docs |-> 0]]

\* What a finished run returned: IncrementalStats, FullIndexStats or the error.
Report(j, outcome) ==
  [op |-> j.op, outcome |-> outcome, added |-> Len(j.changes.added),
   modified |-> Len(j.changes.modified), deleted |-> Len(j.changes.deleted),
   strat |-> j.strat, gitfail |-> j.gitfail]

\* since, after a run has finished: the chain of runs with no change between them.
After(j, outcome) ==
  IF outcome # "ok" THEN "other"
  ELSE IF j.op = "full" THEN "built"
  ELSE CASE since = "built" -> "built+inc"
         [] since = "untracked" -> "untracked+inc"
         [] since = "untracked+inc" -> "untracked+inc+inc"
         [] since \in {"built+inc", "untracked+inc+inc", "inc", "inc+inc"} -> "inc+inc"
         [] OTHER -> "inc"

Finish(outcome, j) ==
  /\ last' = Report(j, outcome)
  /\ since' = After(j, outcome)
  /\ pc' = "idle"
  /\ job' = NoJob

\* The directory ns is first run in: an empty directory that is no git
\* repository, or a git repository whose one commit holds the first path.
InitialRepos ==
  {[wt |-> [p \in Paths |-> NoFile], commits |-> <<>>, tracked |-> {}],
   [wt |-> [p \in Paths |-> IF p = PathSeq[1]
                            THEN [exists |-> TRUE, ver |-> 1, mtime |-> 0, kind |-> "text"]
                            ELSE NoFile],
    commits |-> <<[p \in Paths |-> IF p = PathSeq[1] THEN 1 ELSE 0]>>,
    tracked |-> {PathSeq[1]}]}

Init ==
  /\ now = 0
  /\ \E repo \in InitialRepos :
       /\ wt = repo.wt
       /\ commits = repo.commits
       /\ tracked = repo.tracked
  /\ ignored = {}
  /\ gitFails = {}
  /\ indexExists = FALSE
  /\ segs = <<>>
  /\ meta = NoMeta
  /\ pc = "idle"
  /\ job = NoJob
  /\ edits = 0
  /\ last = Report(NoJob, "none")
  /\ since = "other"
  /\ lastCommit = [done |-> FALSE, segs |-> <<>>]
  /\ call = NoCall

\* ------------------------------------------------- the user and the clock
Tick ==
  /\ pc = "idle"
  /\ now < MaxTime
  /\ now' = now + 1
  /\ UNCHANGED <<wt, ignored, commits, tracked, gitFails, indexExists, segs, meta, pc, job, edits,
                 last, since, lastCommit, call>>

Edit == /\ pc = "idle"
        /\ edits < MaxEdits
        /\ edits' = edits + 1
        /\ UNCHANGED <<now, indexExists, segs, meta, pc, job, last, lastCommit, call>>

\* A file is created, or rewritten with other content.
NextVer(p) == IF wt[p].exists THEN (wt[p].ver % MaxVer) + 1 ELSE 1

WriteFile(p, k) ==
  /\ Edit
  /\ wt' = [wt EXCEPT ![p] = [exists |-> TRUE, ver |-> NextVer(p), mtime |-> now,
                              kind |-> k]]
  /\ since' = IF /\ since = "built" /\ HEAD > 0 /\ ~wt[p].exists /\ p \notin tracked
                 /\ p \notin ignored /\ k = "text" /\ HeadTree[p] = 0
              THEN "untracked" ELSE "other"
  /\ UNCHANGED <<ignored, commits, tracked, gitFails>>

DeleteFile(p) ==
  /\ Edit
  /\ wt[p].exists
  /\ wt' = [wt EXCEPT ![p] = NoFile]
  /\ since' = "other"
  /\ UNCHANGED <<ignored, commits, tracked, gitFails>>

\* A file of the changeset is removed while ns is between detecting the
\* changes and applying them.
FileVanishes(p) ==
  /\ pc = "inc_detected"
  /\ edits < MaxEdits
  /\ edits' = edits + 1
  /\ wt[p].exists
  /\ p \in Range(job.changes.added) \cup Range(job.changes.modified)
  /\ wt' = [wt EXCEPT ![p] = NoFile]
  /\ since' = "other"
  /\ UNCHANGED <<now, ignored, commits, tracked, gitFails, indexExists, segs, meta, pc, job,
                 last, lastCommit, call>>

\* The repository gets into a state in which a git command exits non-zero.
GitCommands == {"diffCommits", "diffHead", "lsFiles"}

BreakGit(c) ==
  /\ Edit
  /\ HEAD > 0
  /\ c \notin gitFails
  /\ gitFails' = gitFails \cup {c}
  /\ since' = "other"
  /\ UNCHANGED <<wt, ignored, commits, tracked>>

\* .gitignore gains or loses a pattern for p.
EditGitignore(p) ==
  /\ Edit
  /\ ignored' = IF p \in ignored THEN ignored \ {p} ELSE ignored \cup {p}
  /\ since' = "other"
  /\ UNCHANGED <<wt, commits, tracked, gitFails>>

\* git add p
GitAdd(p) ==
  /\ Edit
  /\ wt[p].exists
  /\ p \notin tracked
  /\ tracked' = tracked \cup {p}
  /\ since' = "other"
  /\ UNCHANGED <<wt, ignored, commits, gitFails>>

\* git rm --cached p
GitRmCached(p) ==
  /\ Edit
  /\ p \in tracked
  /\ tracked' = tracked \ {p}
  /\ since' = "other"
  /\ UNCHANGED <<wt, ignored, commits, gitFails>>

\* git commit -a
GitCommit ==
  /\ Edit
  /\ Len(commits) < MaxCommits
  /\ WorkTree # HeadTree
  /\ commits' = Append(commits, WorkTree)
  /\ tracked' = {p \in tracked : wt[p].exists}
  /\ since' = "other"
  /\ UNCHANGED <<wt, ignored, gitFails>>

\* meta.json comes from a binary with another schema version.
StaleVersions == {SCHEMA_VERSION - 1, SCHEMA_VERSION + 1}

StaleSchema(v) ==
  /\ pc = "idle"
  /\ edits < MaxEdits
  /\ edits' = edits + 1
  /\ meta.state = "ok"
  /\ meta.schema_version = SCHEMA_VERSION
  /\ meta' = [meta EXCEPT !.schema_version = v]
  /\ since' = "other"
  /\ UNCHANGED <<now, wt, ignored, commits, tracked, gitFails, indexExists, segs, pc, job,
                 last, lastCommit, call>>

\* ------------------------------------------------------------------ search
\* searcher/query.rs execute_search, as far as the index is concerned: it
\* opens the index and reads it.
Search ==
  /\ pc = "idle"
  /\ last' = Report([NoJob EXCEPT !.op = "search"], open_index)
  /\ since' = "other"
  /\ UNCHANGED <<now, wt, ignored, commits, tracked, gitFails, indexExists, segs, meta, pc,
                 job, edits, lastCommit, call>>

\* ------------------------------------------------------------- full build
\* A full build that calls build_index whatever the walk returned.
FullStart_AlwaysBuilds ==
  /\ pc = "idle"
  /\ LET files == [i \in 1..Len(walk_repo) |->
                     [path |-> walk_repo[i], ver |-> wt[walk_repo[i]].ver]]
     IN job' = [NoJob EXCEPT !.op = "full", !.files = files, !.hadMeta = (meta.state = "ok")]
  /\ indexExists' = FALSE
  /\ segs' = <<>>
  /\ pc' = "fb_wiped"
  /\ UNCHANGED <<now, wt, ignored, commits, tracked, gitFails, meta, edits, lastCommit, last,
                 since, call>>

\* indexer/mod.rs run_full_index up to writer.rs build_index's wipe of .ns/index.
FullStart ==
  /\ pc = "idle"
  /\ LET files == [i \in 1..Len(walk_repo) |->
                     [path |-> walk_repo[i], ver |-> wt[walk_repo[i]].ver]]
         j == [NoJob EXCEPT !.op = "full", !.files = files, !.hadMeta = (meta.state = "ok")]
     IN IF files = <<>>
        THEN /\ Finish("nofiles", j)
             /\ UNCHANGED <<indexExists, segs>>
        ELSE /\ indexExists' = FALSE
             /\ segs' = <<>>
             /\ pc' = "fb_wiped"
             /\ job' = j
             /\ UNCHANGED <<last, since>>
  /\ UNCHANGED <<now, wt, ignored, commits, tracked, gitFails, meta, edits, lastCommit, call>>

\* Index::create_in_dir
FullCreate ==
  /\ pc = "fb_wiped"
  /\ indexExists' = TRUE
  /\ pc' = "fb_created"
  /\ UNCHANGED <<now, wt, ignored, commits, tracked, gitFails, segs, meta, job, edits, last, since,
                 lastCommit, call>>

\* writer.rs build_index: one document per walked file, then the commit.
build_index_docs(files) ==
  [old |-> <<>>, new |-> [i \in 1..Len(files) |-> Doc(files[i].path, files[i].ver)]]

FullCommit ==
  /\ pc = "fb_created"
  /\ segs' = commit(build_index_docs(job.files))
  /\ lastCommit' = [done |-> TRUE, segs |-> segs']
  /\ pc' = "committed"
  /\ UNCHANGED <<now, wt, ignored, commits, tracked, gitFails, indexExists, meta, job, edits, last,
                 since, call>>

\* ------------------------------------------------------ incremental update
\* incremental.rs build_document: None when the file cannot be read.
build_document(p) ==
  IF wt[p].exists THEN <<Doc(p, wt[p].ver)>> ELSE <<>>

\* The calls run_incremental makes on the writer, in the order it makes them.
RECURSIVE DeletedOps(_)
DeletedOps(ps) ==
  IF ps = <<>> THEN <<>>
  ELSE <<[op |-> "delete", path |-> Head(ps), ver |-> 0]>> \o DeletedOps(Tail(ps))

RECURSIVE ModifiedOps_AddFirst(_)
ModifiedOps_AddFirst(ps) ==
  IF ps = <<>> THEN <<>>
  ELSE LET d == build_document(Head(ps))
       IN (IF d = <<>> THEN <<>> ELSE <<[op |-> "add", path |-> Head(ps), ver |-> d[1].ver]>>)
          \o <<[op |-> "delete", path |-> Head(ps), ver |-> 0]>>
          \o ModifiedOps_AddFirst(Tail(ps))

\* lines 80-85: delete_term, then add_document if the document could be built
RECURSIVE ModifiedOps(_)
ModifiedOps(ps) ==
  IF ps = <<>> THEN <<>>
  ELSE LET d == build_document(Head(ps))
       IN <<[op |-> "delete", path |-> Head(ps), ver |-> 0]>>
          \o (IF d = <<>> THEN <<>> ELSE <<[op |-> "add", path |-> Head(ps), ver |-> d[1].ver]>>)
          \o ModifiedOps(Tail(ps))

RECURSIVE AddedOps(_)
AddedOps(ps) ==
  IF ps = <<>> THEN <<>>
  ELSE LET d == build_document(Head(ps))
       IN (IF d = <<>> THEN <<>> ELSE <<[op |-> "add", path |-> Head(ps), ver |-> d[1].ver]>>)
          \o AddedOps(Tail(ps))

writer_ops(ch) == DeletedOps(ch.deleted) \o ModifiedOps(ch.modified) \o AddedOps(ch.added)

RECURSIVE ApplyOps(_, _)
ApplyOps(st, ops) ==
  IF ops = <<>> THEN st
  ELSE ApplyOps(IF Head(ops).op = "delete"
                  THEN delete_term(st, Head(ops).path)
                  ELSE add_document(st, Doc(Head(ops).path, Head(ops).ver)),
                Tail(ops))

\* incremental.rs run_incremental, lines 73-93: the mutations and the commit.
apply_changes(ss, ch) == commit(ApplyOps([old |-> ss, new |-> <<>>], writer_ops(ch)))

\* Whether the git subprocesses of this run exit with status 0, and whether
\* git detects renames (diff.renames).
GitOutcome(renames) ==
  [diffCommits |-> "diffCommits" \notin gitFails, diffHead |-> "diffHead" \notin gitFails,
   lsFiles |-> "lsFiles" \notin gitFails, renames |-> renames]

\* Whether a git subprocess that the strategy runs exited non-zero.
GitFailed(strat, g) ==
  CASE strat = "git" -> ~(g.diffCommits /\ g.diffHead /\ g.lsFiles)
    [] strat = "git_uncommitted" -> ~(g.diffHead /\ g.lsFiles)
    [] OTHER -> FALSE

\* run_incremental with a fast path that rewrites meta.json (fresh indexed_at
\* and git_commit) before it returns.
IncStart_RefreshesMeta(renames, order) ==
  /\ pc = "idle"
  /\ LET g == GitOutcome(renames)
         strat == IF open_index = "ok" THEN Strategy(meta) ELSE "none"
         j == [NoJob EXCEPT !.op = "inc", !.strat = strat, !.gitfail = GitFailed(strat, g),
                            !.hadMeta = (meta.state = "ok")]
     IN IF open_index # "ok"
        THEN Finish(open_index, j) /\ UNCHANGED meta
        ELSE LET ch == detect_changes(meta, segs, g, order)
             IN /\ StoredDocs(segs) + Len(ch.added) + Len(ch.modified) <= MaxDocs
                /\ IF Len(ch.added) + Len(ch.modified) + Len(ch.deleted) = 0
                   THEN Finish("ok", j) /\ meta' = IndexMeta(meta.file_count)
                   ELSE /\ pc' = "inc_detected"
                        /\ job' = [j EXCEPT !.changes = ch]
                        /\ UNCHANGED <<last, since, meta>>
  /\ UNCHANGED <<now, wt, ignored, commits, tracked, gitFails, indexExists, segs, edits,
                 lastCommit, call>>

\* run_incremental up to the no-change fast path.
IncStart(renames, order) ==
  /\ pc = "idle"
  /\ LET g == GitOutcome(renames)
         strat == IF open_index = "ok" THEN Strategy(meta) ELSE "none"
         j == [NoJob EXCEPT !.op = "inc", !.strat = strat, !.gitfail = GitFailed(strat, g),
                            !.hadMeta = (meta.state = "ok")]
     IN IF open_index # "ok"
        THEN Finish(open_index, j)
        ELSE LET ch == detect_changes(meta, segs, g, order)
             IN /\ StoredDocs(segs) + Len(ch.added) + Len(ch.modified) <= MaxDocs
                /\ IF Len(ch.added) + Len(ch.modified) + Len(ch.deleted) = 0
                   THEN Finish("ok", j)
                   ELSE /\ pc' = "inc_detected"
                        /\ job' = [j EXCEPT !.changes = ch]
                        /\ UNCHANGED <<last, since>>
  /\ UNCHANGED <<now, wt, ignored, commits, tracked, gitFails, indexExists, segs, meta, edits,
                 lastCommit, call>>

IncCommit ==
  /\ pc = "inc_detected"
  /\ segs' = apply_changes(segs, job.changes)
  /\ lastCommit' = [done |-> TRUE, segs |-> segs']
  /\ job' = [job EXCEPT !.unreadable =
               {p \in Range(job.changes.added) \cup Range(job.changes.modified) :
                  build_document(p) = <<>>},
                         !.ops = writer_ops(job.changes)]
  /\ pc' = "committed"
  /\ UNCHANGED <<now, wt, ignored, commits, tracked, gitFails, indexExists, meta, edits,
                 last, since, call>>

\* An update that writes meta.json before it commits, and whose commit fails.
IncCommitFails_MetaFirst ==
  /\ pc = "inc_detected"
  /\ meta' = IndexMeta(TotalNumDocs(segs))
  /\ Finish("engine_error", job)
  /\ UNCHANGED <<now, wt, ignored, commits, tracked, gitFails, indexExists, segs, edits,
                 lastCommit, call>>

\* writer.commit()? fails (or an add_document before it): run_incremental
\* returns the error.  The engine publishes a commit atomically, so the
\* segments a reader opens are the ones of the last commit.
IncCommitFails ==
  /\ pc = "inc_detected"
  /\ Finish("engine_error", job)
  /\ UNCHANGED <<now, wt, ignored, commits, tracked, gitFails, indexExists, segs, meta, edits,
                 lastCommit, call>>

\* ---------------------------------------------------- fs::write(meta.json)
\* File::create truncates meta.json ...
WriteMetaCreate ==
  /\ pc = "committed"
  /\ job' = [job EXCEPT !.new_meta =
               IndexMeta(IF job.op = "full" THEN Len(job.files) ELSE TotalNumDocs(segs))]
  /\ meta' = TornMeta
  /\ pc' = "meta_created"
  /\ UNCHANGED <<now, wt, ignored, commits, tracked, gitFails, indexExists, segs, edits, last, since,
                 lastCommit, call>>

\* ... and write_all fills it; the run returns its stats.
WriteMetaFill ==
  /\ pc = "meta_created"
  /\ meta' = job.new_meta
  /\ Finish("ok", job)
  /\ UNCHANGED <<now, wt, ignored, commits, tracked, gitFails, indexExists, segs, edits, lastCommit, call>>

\* The ns process is killed; the model follows the directory up to the kill.
Kill ==
  /\ pc \notin {"idle", "killed", "contended"}
  /\ job' = [job EXCEPT !.killedAt = pc]
  /\ pc' = "killed"
  /\ UNCHANGED <<now, wt, ignored, commits, tracked, gitFails, indexExists, segs, meta, edits, last,
                 since, lastCommit, call>>

\* ------------------------------------------------------- a second process
\* The running process holds the IndexWriter, and with it the lock file of the
\* index directory: from index.writer() to the return of build_index or
\* run_incremental.
WriterHeld == pc \in {"fb_created", "committed", "meta_created"}

\* A second ns process runs a full build while the writer is held.  build_index
\* removes and recreates .ns/index before it asks for a writer; the lock file
\* it then locks is a new file, so whether index.writer() reports LockBusy
\* depends on the platform's file locks.  The model follows the directory up
\* to the end of the second process.
SecondFull(locked) ==
  /\ WriterHeld
  /\ pc' = "contended"
  /\ LET files == [i \in 1..Len(walk_repo) |->
                     [path |-> walk_repo[i], ver |-> wt[walk_repo[i]].ver]]
     IN IF files = <<>>
        THEN /\ job' = [job EXCEPT !.second = [op |-> "full", outcome |-> "nofiles",
                                               reached |-> FALSE]]
             /\ UNCHANGED <<indexExists, segs, meta, lastCommit>>
        ELSE /\ indexExists' = TRUE
             /\ job' = [job EXCEPT !.second =
                          [op |-> "full", outcome |-> IF locked THEN "locked" ELSE "ok",
                           reached |-> TRUE]]
             /\ IF locked
                THEN /\ segs' = <<>>
                     /\ UNCHANGED <<meta, lastCommit>>
                ELSE /\ segs' = commit(build_index_docs(files))
                     /\ meta' = IndexMeta(Len(files))
                     /\ lastCommit' = [done |-> TRUE, segs |-> segs']
  /\ UNCHANGED <<now, wt, ignored, commits, tracked, gitFails, edits, last, since, call>>

\* A second ns process runs an incremental update while the writer is held:
\* open_index, detect_changes, the fast path, then index.writer() fails with
\* LockBusy.
SecondInc(renames, order) ==
  /\ WriterHeld
  /\ pc' = "contended"
  /\ LET ch == detect_changes(meta, segs, GitOutcome(renames), order)
         out == IF open_index # "ok" THEN [outcome |-> open_index, reached |-> FALSE]
                ELSE IF Len(ch.added) + Len(ch.modified) + Len(ch.deleted) = 0
                THEN [outcome |-> "ok", reached |-> FALSE]
                ELSE [outcome |-> "locked", reached |-> TRUE]
     IN job' = [job EXCEPT !.second = [op |-> "inc", outcome |-> out.outcome,
                                       reached |-> out.reached]]
  /\ UNCHANGED <<now, wt, ignored, commits, tracked, gitFails, indexExists, segs, meta, edits,
                 last, since, lastCommit, call>>

\* A search runs while an incremental update is under way: execute_search
\* reads meta.json in open_index, takes a reader on the index as it is then,
\* and reports meta.file_count as files_searched.  The model follows the
\* directory up to the end of the search.
SearchDuring ==
  /\ pc \in {"inc_detected", "committed", "meta_created"}
  /\ job.op = "inc"
  /\ pc' = "contended"
  /\ job' = [job EXCEPT !.second = [op |-> "search", outcome |-> open_index,
                                     reached |-> FALSE],
                        !.seen = IF open_index = "ok"
                                   THEN [files_searched |-> meta.file_count,
                                         num_docs |-> TotalNumDocs(segs)]
                                   ELSE @]
  /\ UNCHANGED <<now, wt, ignored, commits, tracked, gitFails, indexExists, segs, meta, edits,
                 last, since, lastCommit, call>>

Next ==
  \/ Tick
  \/ \E p \in Paths, k \in Kinds : WriteFile(p, k)
  \/ \E p \in Paths : DeleteFile(p)
  \/ \E p \in Paths : FileVanishes(p)
  \/ \E c \in GitCommands : BreakGit(c)
  \/ \E p \in Paths : EditGitignore(p)
  \/ \E p \in Paths : GitAdd(p)
  \/ \E p \in Paths : GitRmCached(p)
  \/ GitCommit
  \/ \E v \in StaleVersions : StaleSchema(v)
  \/ Search
  \/ FullStart
  \/ FullCreate
  \/ FullCommit
  \/ \E renames \in BOOLEAN, order \in Perms(Paths) : IncStart(renames, order)
  \/ IncCommit
  \/ IncCommitFails
  \/ WriteMetaCreate
  \/ WriteMetaFill
  \/ Kill
  \/ \E locked \in BOOLEAN : SecondFull(locked)
  \/ \E renames \in BOOLEAN, order \in Perms(Paths) : SecondInc(renames, order)
  \/ SearchDuring

Spec == Init /\ [][Next]_vars

\* ------------------------------------------------ searcher/context.rs
\* Text is a sequence of characters.  The characters the model tells apart:
\* a lowercase letter "a" with its uppercase form "A", another letter "b", a
\* punctuation mark ".".
is_alphanumeric(c) == c # "."

to_lowercase(str) == [i \in 1..Len(str) |-> IF str[i] = "A" THEN "a" ELSE str[i]]

\* str::contains
StrContains(haystack, needle) ==
  \E i \in 0..(Len(haystack) - Len(needle)) :
     SubSeq(haystack, i + 1, i + Len(needle)) = needle

\* query.split(|c| !c.is_alphanumeric()).filter(|s| !s.is_empty())
RECURSIVE SplitAlnum(_, _)
SplitAlnum(str, cur) ==
  IF str = <<>> THEN (IF cur = <<>> THEN <<>> ELSE <<cur>>)
  ELSE IF is_alphanumeric(Head(str)) THEN SplitAlnum(Tail(str), Append(cur, Head(str)))
  ELSE (IF cur = <<>> THEN <<>> ELSE <<cur>>) \o SplitAlnum(Tail(str), <<>>)

tokenize_query(query) ==
  LET parts == SplitAlnum(query, <<>>)
  IN [i \in 1..Len(parts) |-> to_lowercase(parts[i])]

\* usize, scaled down to UsizeBits bits.
UsizeMax == 2^UsizeBits - 1

saturating_sub(a, b) == IF a >= b THEN a - b ELSE 0

Min(a, b) == IF a <= b THEN a ELSE b

\* Iteration of a BTreeSet<usize>: ascending.
RECURSIVE Ascending(_)
Ascending(S) ==
  IF S = {} THEN <<>>
  ELSE LET m == CHOOSE x \in S : \A y \in S : x <= y
       IN <<m>> \o Ascending(S \ {m})

\* Whether the line contains at least one of the terms, case-insensitively.
LineMatches(line, terms) ==
  \E k \in 1..Len(terms) : StrContains(to_lowercase(line), terms[k])

EmptyContext == [lines |-> <<>>, truncated_count |-> 0, panicked |-> FALSE]

\* A window that reaches one line further than context_window on each side.
ContextWindow_OneMore(idx, context_window, total_lines) ==
  saturating_sub(idx, context_window + 1)
    .. Min((idx + context_window + 1) % (UsizeMax + 1), total_lines - 1)

\* start..=end around a matching line (0-based indices); idx + context_window
\* wraps in a build without overflow checks.
ContextWindow(idx, context_window, total_lines) ==
  saturating_sub(idx, context_window)
    .. Min((idx + context_window) % (UsizeMax + 1), total_lines - 1)

\* A cap that takes Some(0) for a cap of zero lines.
LineCap_ZeroIsZero(max_lines) == IF max_lines = <<>> THEN UsizeMax ELSE max_lines[1]

\* cap: Some(0) | None => usize::MAX, Some(n) => n
LineCap(max_lines) ==
  IF max_lines = <<>> \/ max_lines[1] = 0 THEN UsizeMax ELSE max_lines[1]

\* extract_context.  content: whether the file could be read, and its lines;
\* max_lines: <<>> for None, <<n>> for Some(n); overflow_checks: whether the
\* build panics on arithmetic overflow (debug) or wraps (release).
extract_context(content, query, context_window, max_lines, overflow_checks) ==
  LET lines == content.lines
      total_lines == Len(lines)
      terms == tokenize_query(query)
      match_indices == {i \in 0..(total_lines - 1) : LineMatches(lines[i + 1], terms)}
      overflows == \E idx \in match_indices : idx + context_window > UsizeMax
      include_indices ==
        UNION {ContextWindow(idx, context_window, total_lines) : idx \in match_indices}
      cap == LineCap(max_lines)
      total_context == Cardinality(include_indices)
      truncated_count == IF total_context > cap THEN total_context - cap ELSE 0
      taken == SubSeq(Ascending(include_indices), 1, Min(cap, total_context))
  IN IF ~content.readable \/ total_lines = 0 \/ terms = <<>> \/ match_indices = {}
     THEN EmptyContext
     ELSE IF overflows /\ overflow_checks
     THEN [EmptyContext EXCEPT !.panicked = TRUE]
     ELSE [lines |-> [k \in 1..Len(taken) |->
                        [line_number |-> taken[k] + 1, text |-> lines[taken[k] + 1]]],
           truncated_count |-> truncated_count,
           panicked |-> FALSE]

\* The calls of extract_context the model makes.
LineTexts == {<<"a">>, <<"A", "b">>, <<"b">>, <<".">>}

Queries ==
  {<<>>, <<".">>, <<"a">>, <<"A">>, <<"b">>, <<"A", "b">>, <<"a", ".", "b">>,
   <<".", "b", "a">>}

SeqsUpTo(S, n) == UNION {[1..k -> S] : k \in 0..n}

Contents ==
  {[readable |-> TRUE, lines |-> ls] : ls \in SeqsUpTo(LineTexts, MaxFileLines)}
    \cup {[readable |-> FALSE, lines |-> <<>>]}

ContextCalls ==
  {[fn |-> "extract_context", done |-> FALSE, content |-> c, query |-> q,
    context_window |-> w, max_lines |-> m, result |-> EmptyContext] :
     c \in Contents, q \in Queries,
     w \in (0..MaxWindow) \cup {UsizeMax},
     m \in {<<>>} \cup {<<n>> : n \in 0..MaxCap}}

\* The directory and the ns process while a pure function is called.
Untouched ==
  /\ now = 0
  /\ wt = [p \in Paths |-> NoFile]
  /\ commits = <<>>
  /\ tracked = {}
  /\ ignored = {}
  /\ gitFails = {}
  /\ indexExists = FALSE
  /\ segs = <<>>
  /\ meta = NoMeta
  /\ pc = "idle"
  /\ job = NoJob
  /\ edits = 0
  /\ last = Report(NoJob, "none")
  /\ since = "other"
  /\ lastCommit = [done |-> FALSE, segs |-> <<>>]

InitContext == Untouched /\ call \in ContextCalls

CallExtractContext(overflow_checks) ==
  /\ call.fn = "extract_context"
  /\ ~call.done
  /\ call' = [call EXCEPT !.done = TRUE,
                          !.result = extract_context(call.content, call.query,
                                                     call.context_window, call.max_lines,
                                                     overflow_checks)]
  /\ UNCHANGED <<now, wt, ignored, commits, tracked, gitFails, indexExists, segs, meta, pc,
                 job, edits, last, since, lastCommit>>

NextContext == \E overflow_checks \in BOOLEAN : CallExtractContext(overflow_checks)

SpecContext == InitContext /\ [][NextContext]_vars

\* ------------------------------------------------------ the budget shaper
\* A result is represented by the length in bytes of its serialized chunk;
\* the formatted output by the list of the chunks it holds, and the trailer
\* line or stats entry by the number it announces.

\* Width of usize in the arithmetic on the budget, scaled down.
BudgetBits == 9
MaxResults == 3
MaxBudget == 3
envelope_estimate == 200

\* Serialized lengths of a result: never zero, a line ends with "\n".
ChunkLens == {3, 5}

NoOutput ==
  [formatted |-> <<>>, trailer |-> <<>>, budget_exhausted |-> FALSE,
   results_omitted |-> 0, panicked |-> FALSE]

\* budget.map(|b| b * 4): the product overflows usize for a large budget;
\* with overflow checks the process panics, without them the product wraps.
budget_chars(budget, overflow_checks) ==
  IF budget = <<>> THEN [cap |-> <<>>, panicked |-> FALSE]
  ELSE IF budget[1] * 4 >= 2^BudgetBits /\ overflow_checks
         THEN [cap |-> <<>>, panicked |-> TRUE]
         ELSE [cap |-> <<(budget[1] * 4) % 2^BudgetBits>>, panicked |-> FALSE]

BudgetExceeded_FirstResultToo(running, len, cap, some_emitted) ==
  cap # <<>> /\ running + len > cap[1]

\* The test before each result: the running length plus the next chunk
\* exceeds the cap and something was already emitted.
BudgetExceeded(running, len, cap, some_emitted) ==
  cap # <<>> /\ running + len > cap[1] /\ some_emitted

\* The loop of the text and files-only builders from result i on: `running`
\* is out.len(), and out.is_empty() is running = 0.
RECURSIVE OutLoop(_, _, _, _)
OutLoop(chunks, i, cap, running) ==
  IF i > Len(chunks)
    THEN [NoOutput EXCEPT !.formatted = chunks]
    ELSE IF BudgetExceeded(running, chunks[i], cap, running # 0)
           THEN [NoOutput EXCEPT !.formatted = SubSeq(chunks, 1, i - 1),
                                 !.trailer = <<Len(chunks) - (i - 1)>>,
                                 !.budget_exhausted = TRUE,
                                 !.results_omitted = Len(chunks) - (i - 1)]
           ELSE OutLoop(chunks, i + 1, cap, running + chunks[i])

\* The loop of the JSON builder from result i on: `running` is
\* running_chars, and result_values.is_empty() is i = 1.
RECURSIVE JsonLoop(_, _, _, _)
JsonLoop(chunks, i, cap, running) ==
  IF i > Len(chunks)
    THEN [NoOutput EXCEPT !.formatted = chunks]
    ELSE IF BudgetExceeded(running, chunks[i], cap, i # 1)
           THEN [NoOutput EXCEPT !.formatted = SubSeq(chunks, 1, i - 1),
                                 !.trailer = <<Len(chunks) - (i - 1)>>,
                                 !.budget_exhausted = TRUE,
                                 !.results_omitted = Len(chunks) - (i - 1)]
           ELSE JsonLoop(chunks, i + 1, cap, running + chunks[i])

build_files_only_with_budget(chunks, budget, overflow_checks) ==
  LET bc == budget_chars(budget, overflow_checks)
  IN IF bc.panicked THEN [NoOutput EXCEPT !.panicked = TRUE]
     ELSE OutLoop(chunks, 1, bc.cap, 0)

build_text_with_budget(chunks, budget, overflow_checks) ==
  LET bc == budget_chars(budget, overflow_checks)
  IN IF bc.panicked THEN [NoOutput EXCEPT !.panicked = TRUE]
     ELSE OutLoop(chunks, 1, bc.cap, 0)

build_json_with_budget(chunks, budget, overflow_checks) ==
  LET bc == budget_chars(budget, overflow_checks)
  IN IF bc.panicked THEN [NoOutput EXCEPT !.panicked = TRUE]
     ELSE JsonLoop(chunks, 1, bc.cap, envelope_estimate)

OutputModes == {"Text", "FilesOnly", "Json"}

\* searcher::search after the query has run: the results go to the builder
\* of the output mode, opts.budget as it was given.
search(output_mode, chunks, budget, overflow_checks) ==
  CASE output_mode = "FilesOnly" -> build_files_only_with_budget(chunks, budget, overflow_checks)
    [] output_mode = "Text" -> build_text_with_budget(chunks, budget, overflow_checks)
    [] output_mode = "Json" -> build_json_with_budget(chunks, budget, overflow_checks)

\* cmd::search::run: --budget 0 becomes no budget before searcher::search.
run(output_mode, chunks, budget, overflow_checks) ==
  search(output_mode, chunks, IF budget = <<0>> THEN <<>> ELSE budget, overflow_checks)

\* Budgets around the thresholds: small ones, those about the envelope
\* estimate of the JSON builder, and those whose product by 4 overflows.
Budgets ==
  {<<>>} \cup
  {<<b>> : b \in (0..MaxBudget)
               \cup {envelope_estimate \div 4 + k : k \in 0..2}
               \cup {2^(BudgetBits - 2), 2^(BudgetBits - 2) + 1}}

BudgetCalls ==
  {[fn |-> f, done |-> FALSE, output_mode |-> m, chunks |-> cs, budget |-> b,
    result |-> NoOutput] :
     f \in {"run", "search"}, m \in OutputModes,
     cs \in SeqsUpTo(ChunkLens, MaxResults), b \in Budgets}

InitBudget == Untouched /\ call \in BudgetCalls

\* The command line `ns [search] --budget b`.
CallRun(overflow_checks) ==
  /\ call.fn = "run"
  /\ ~call.done
  /\ call' = [call EXCEPT !.done = TRUE,
                          !.result = run(call.output_mode, call.chunks, call.budget,
                                         overflow_checks)]
  /\ UNCHANGED <<now, wt, ignored, commits, tracked, gitFails, indexExists, segs, meta, pc,
                 job, edits, last, since, lastCommit>>

\* The library entry ns::searcher::search with opts.budget = b.
CallSearch(overflow_checks) ==
  /\ call.fn = "search"
  /\ ~call.done
  /\ call' = [call EXCEPT !.done = TRUE,
                          !.result = search(call.output_mode, call.chunks, call.budget,
                                            overflow_checks)]
  /\ UNCHANGED <<now, wt, ignored, commits, tracked, gitFails, indexExists, segs, meta, pc,
                 job, edits, last, since, lastCommit>>

NextBudget ==
  \/ \E overflow_checks \in BOOLEAN : CallRun(overflow_checks)
  \/ \E overflow_checks \in BOOLEAN : CallSearch(overflow_checks)

SpecBudget == InitBudget /\ [][NextBudget]_vars

\* --------------------------------------- the text of `git diff --name-status`
\* A line is a sequence of characters; the output is the list of its lines.
MaxFields == 3

is_whitespace(c) == c \in {" ", "\t"}

RECURSIVE trim_start(_)
trim_start(s) ==
  IF s # <<>> /\ is_whitespace(Head(s)) THEN trim_start(Tail(s)) ELSE s

RECURSIVE trim_end(_)
trim_end(s) ==
  IF s # <<>> /\ is_whitespace(s[Len(s)]) THEN trim_end(SubSeq(s, 1, Len(s) - 1)) ELSE s

\* str::trim
trim(s) == trim_end(trim_start(s))

\* str::splitn(n, '\t'): at most n parts, the last one holds the remainder.
RECURSIVE splitn(_, _)
splitn(s, n) ==
  LET tabs == {i \in 1..Len(s) : s[i] = "\t"}
  IN IF n <= 1 \/ tabs = {} THEN <<s>>
     ELSE LET i == CHOOSE j \in tabs : \A k \in tabs : j <= k
          IN <<SubSeq(s, 1, i - 1)>> \o splitn(SubSeq(s, i + 1, Len(s)), n - 1)

\* parse_name_status_output on the text: each line is trimmed, an empty line
\* is skipped, the others are split in at most 3 parts at the tabs.
parse_name_status_text(output) ==
  LET trimmed == [i \in 1..Len(output) |-> trim(output[i])]
      kept == SelectSeq(trimmed, LAMBDA l : l # <<>>)
  IN parse_name_status_output([i \in 1..Len(kept) |-> splitn(kept[i], 3)])

RECURSIVE JoinTabs(_)
JoinTabs(fields) ==
  IF fields = <<>> THEN <<>>
  ELSE IF Len(fields) = 1 THEN fields[1]
  ELSE fields[1] \o <<"\t">> \o JoinTabs(Tail(fields))

\* Sample statuses and path fields: the four letters, a rename with its
\* score, a copy, no status; names with a blank at either end, the empty name.
StatusSamples ==
  {<<"A">>, <<"M">>, <<"D">>, <<"R">>, <<"R", "1">>, <<"C">>, <<>>}

FieldSamples == {<<"x">>, <<"y">>, <<"x", " ">>, <<" ", "y">>, <<>>}

NameStatusLines ==
  {JoinTabs(<<st>> \o fs) : st \in StatusSamples, fs \in SeqsUpTo(FieldSamples, MaxFields)}

\* Outputs of one line, and of one line followed by a sample second line.
NameStatusOutputs ==
  {<<l>> : l \in NameStatusLines} \cup
  {<<l, m>> : l \in NameStatusLines,
              m \in {<<>>, <<"M", "\t", "y">>, <<"R", "\t", "y", "\t", "x">>}}

ParseCalls ==
  {[fn |-> "parse_name_status_output", done |-> FALSE, output |-> o,
    result |-> EmptyChanges] : o \in NameStatusOutputs}

InitParse == Untouched /\ call \in ParseCalls

CallParseNameStatus ==
  /\ call.fn = "parse_name_status_output"
  /\ ~call.done
  /\ call' = [call EXCEPT !.done = TRUE,
                          !.result = parse_name_status_text(call.output)]
  /\ UNCHANGED <<now, wt, ignored, commits, tracked, gitFails, indexExists, segs, meta, pc,
                 job, edits, last, since, lastCommit>>

NextParse == CallParseNameStatus

SpecParse == InitParse /\ [][NextParse]_vars

\* ------------------------------------------------------- symbol extraction
\* The parsed source is the list of its syntax nodes in the order the walkers
\* visit them (pre-order), each with its kind and the text of its name.
MaxNodes == 3

SupportedLangs == {"rust", "typescript", "javascript", "python", "go", "elixir"}

\* The node kinds a walker takes a name from (a sample of each walker's
\* match arms; an Elixir declaration is a `call` node).
DeclKinds(lang) ==
  CASE lang = "rust" -> {"function_item", "struct_item", "impl_item"}
    [] lang = "typescript" -> {"function_declaration", "interface_declaration"}
    [] lang = "javascript" -> {"function_declaration"}
    [] lang = "python" -> {"function_definition"}
    [] lang = "go" -> {"function_declaration"}
    [] lang = "elixir" -> {"call"}
    [] OTHER -> {}

NodeKinds ==
  {"function_item", "impl_item", "function_declaration", "interface_declaration",
   "function_definition", "call", "identifier"}

SymbolNames == {"EventStore", "new"}

\* walk_rust, walk_js_ts, walk_python, walk_go, walk_elixir: the names of the
\* declaration nodes, in visiting order.
RECURSIVE walk(_, _)
walk(lang, nodes) ==
  IF nodes = <<>> THEN <<>>
  ELSE (IF Head(nodes).kind \in DeclKinds(lang) THEN <<Head(nodes).name>> ELSE <<>>)
       \o walk(lang, Tail(nodes))

RECURSIVE DedupLast(_, _)
DedupLast(symbols, seen) ==
  IF symbols = <<>> THEN <<>>
  ELSE IF Head(symbols) \in Range(Tail(symbols))
         THEN DedupLast(Tail(symbols), seen)
         ELSE <<Head(symbols)>> \o DedupLast(Tail(symbols), seen)

\* symbols.into_iter().filter(|s| seen.insert(s.clone())).collect()
RECURSIVE Dedup(_, _)
Dedup(symbols, seen) ==
  IF symbols = <<>> THEN <<>>
  ELSE IF Head(symbols) \in seen
         THEN Dedup(Tail(symbols), seen)
         ELSE <<Head(symbols)>> \o Dedup(Tail(symbols), seen \cup {Head(symbols)})

extract_symbols(lang, nodes) ==
  IF lang \notin SupportedLangs THEN <<>>
  ELSE Dedup(walk(lang, nodes), {})

SymbolCalls ==
  {[fn |-> "extract_symbols", done |-> FALSE, lang |-> l, nodes |-> ns, result |-> <<>>] :
     l \in SupportedLangs \cup {"ruby"},
     ns \in SeqsUpTo([kind : NodeKinds, name : SymbolNames], MaxNodes)}

InitSymbols == Untouched /\ call \in SymbolCalls

CallExtractSymbols ==
  /\ call.fn = "extract_symbols"
  /\ ~call.done
  /\ call' = [call EXCEPT !.done = TRUE,
                          !.result = extract_symbols(call.lang, call.nodes)]
  /\ UNCHANGED <<now, wt, ignored, commits, tracked, gitFails, indexExists, segs, meta, pc,
                 job, edits, last, since, lastCommit>>

NextSymbols == CallExtractSymbols

SpecSymbols == InitSymbols /\ [][NextSymbols]_vars

\* ------------------------------------------------ matched_symbols (JSON)
MaxSymbols == 2

SymbolTexts == {<<"a">>, <<"A", "b">>, <<"b">>, <<"b", "a">>}

\* format_json: the symbols of a result whose lowercased name contains a
\* query term, in the order of symbols_raw.
matched_symbols(symbols_raw, query_str) ==
  LET query_terms == tokenize_query(query_str)
  IN SelectSeq(symbols_raw,
               LAMBDA sym : \E k \in 1..Len(query_terms) :
                               StrContains(to_lowercase(sym), query_terms[k]))

MatchedCalls ==
  {[fn |-> "format_json", done |-> FALSE, symbols_raw |-> ss, query |-> q, result |-> <<>>] :
     ss \in SeqsUpTo(SymbolTexts, MaxSymbols), q \in Queries}

InitMatched == Untouched /\ call \in MatchedCalls

CallFormatJson ==
  /\ call.fn = "format_json"
  /\ ~call.done
  /\ call' = [call EXCEPT !.done = TRUE,
                          !.result = matched_symbols(call.symbols_raw, call.query)]
  /\ UNCHANGED <<now, wt, ignored, commits, tracked, gitFails, indexExists, segs, meta, pc,
                 job, edits, last, since, lastCommit>>

NextMatched == CallFormatJson

SpecMatched == InitMatched /\ [][NextMatched]_vars

\* ------------------------------------------------------------- git hooks
\* A hook file is the list of its lines and whether the last line ends with
\* a newline.  A line is a sequence of units: "#!sh" a shell shebang, "#!py"
\* another shebang, "m" the text of NS_MARKER, "h" the text of NS_HOOK_LINE,
\* "e" a user command, " " a blank.
MaxHookLines == 3
MaxOps == 4

NS_MARKER == <<"m">>
NS_HOOK_LINE == <<"h">>

NoHookFile == [exists |-> FALSE, lines |-> <<>>, nl |-> FALSE]

\* content.contains(needle), for a needle without a newline
ContentContains(f, needle) == \E i \in 1..Len(f.lines) : StrContains(f.lines[i], needle)

\* is_shell_script: the first line is a shebang of sh, bash or zsh.
is_shell_script(f) == f.lines # <<>> /\ f.lines[1] # <<>> /\ f.lines[1][1] = "#!sh"

install_hook(f) ==
  IF f.exists
    THEN IF ContentContains(f, NS_HOOK_LINE) THEN f
         ELSE IF ~is_shell_script(f) THEN f
         ELSE [exists |-> TRUE,
               lines |-> f.lines \o (IF f.nl THEN <<<<>>>> ELSE <<>>)
                           \o <<NS_MARKER, NS_HOOK_LINE>>,
               nl |-> TRUE]
    ELSE [exists |-> TRUE, lines |-> <<<<"#!sh">>, NS_MARKER, NS_HOOK_LINE>>, nl |-> TRUE]

\* cleaned.join("\n").trim_end(): the blank lines at the end go, and so does
\* the whitespace at the end of the last line left.
TrimEndContent(ls) ==
  LET keep == {i \in 1..Len(ls) : trim(ls[i]) # <<>>}
      n == CHOOSE i \in keep : \A j \in keep : j <= i
  IN [i \in 1..n |-> IF i = n THEN trim_end(ls[i]) ELSE ls[i]]

remove_hook(f) ==
  IF ~f.exists THEN f
  ELSE IF ~ContentContains(f, NS_HOOK_LINE) /\ ~ContentContains(f, NS_MARKER) THEN f
  ELSE
    LET cleaned == SelectSeq(f.lines, LAMBDA l : trim(l) # NS_MARKER /\ trim(l) # NS_HOOK_LINE)
        meaningful == SelectSeq(cleaned,
                        LAMBDA l : trim(l) # <<>> /\ ~(l[1] \in {"#!sh", "#!py"}))
    IN IF meaningful = <<>> THEN NoHookFile
       ELSE [exists |-> TRUE, lines |-> TrimEndContent(cleaned), nl |-> TRUE]

HookLineSamples == {<<"#!sh">>, <<"#!py">>, <<"e">>, <<"e", " ">>, <<>>}

\* The hook files a user can have left: none, the empty file, or lines with
\* or without the final newline (a file that ends without one does not end
\* in an empty line).
HookFiles ==
  {NoHookFile} \cup
  {f \in [exists : {TRUE}, lines : SeqsUpTo(HookLineSamples, MaxHookLines), nl : BOOLEAN] :
     \/ f.lines = <<>> /\ ~f.nl
     \/ f.lines # <<>> /\ (f.nl \/ f.lines[Len(f.lines)] # <<>>)}

HooksCalls ==
  {[fn |-> "hooks", done |-> FALSE, orig |-> f, file |-> f, ops |-> <<>>] : f \in HookFiles}

InitHooks == Untouched /\ call \in HooksCalls

\* `ns hooks install` on one hook
HooksInstall ==
  /\ call.fn = "hooks"
  /\ Len(call.ops) < MaxOps
  /\ call' = [call EXCEPT !.file = install_hook(call.file),
                          !.ops = Append(@, "install")]
  /\ UNCHANGED <<now, wt, ignored, commits, tracked, gitFails, indexExists, segs, meta, pc,
                 job, edits, last, since, lastCommit>>

\* `ns hooks remove` on one hook
HooksRemove ==
  /\ call.fn = "hooks"
  /\ Len(call.ops) < MaxOps
  /\ call' = [call EXCEPT !.file = remove_hook(call.file),
                          !.ops = Append(@, "remove")]
  /\ UNCHANGED <<now, wt, ignored, commits, tracked, gitFails, indexExists, segs, meta, pc,
                 job, edits, last, since, lastCommit>>

NextHooks == HooksInstall \/ HooksRemove

SpecHooks == InitHooks /\ [][NextHooks]_vars

\* --------------------------------------------------------- usage statistics
\* Several threads call record_search on one root.  .ns/stats.json is
\* `file` (<<>> while it does not exist), .ns/stats.lock is held by thread
\* `lock` (0: free); search_log.jsonl does not exist, so read_stats gives
\* what the file holds.  n, chars and tokens count what the finished calls
\* were given.
MaxThreads == 2
MaxCalls == 2

Threads == 1..MaxThreads

OutputChars == {3, 5}

DefaultStats == [total_searches |-> 0, total_output_chars |-> 0, total_estimated_tokens |-> 0]

read_stats(file) == IF file = <<>> THEN DefaultStats ELSE file[1]

lock_exclusive_NoWait(holder) == TRUE

\* lock_file.lock_exclusive() returns once no other open file holds the lock.
lock_exclusive(holder) == holder = 0

StatsStart ==
  [fn |-> "record_search", done |-> FALSE, file |-> <<>>, lock |-> 0,
   th |-> [t \in Threads |-> [pc |-> "idle", stats |-> DefaultStats, output_chars |-> 0,
                              calls |-> 0]],
   n |-> 0, chars |-> 0, tokens |-> 0]

InitStats == Untouched /\ call = StatsStart

\* record_search_inner up to lock_exclusive
RsLock(t, output_chars) ==
  /\ call.fn = "record_search"
  /\ call.th[t].pc = "idle"
  /\ call.th[t].calls < MaxCalls
  /\ lock_exclusive(call.lock)
  /\ call' = [call EXCEPT !.lock = t,
                          !.th[t].pc = "locked",
                          !.th[t].output_chars = output_chars]
  /\ UNCHANGED <<now, wt, ignored, commits, tracked, gitFails, indexExists, segs, meta, pc,
                 job, edits, last, since, lastCommit>>

\* read_stats and the four updates of the record
RsRead(t) ==
  /\ call.fn = "record_search"
  /\ call.th[t].pc = "locked"
  /\ LET s == read_stats(call.file)
         c == call.th[t].output_chars
     IN call' = [call EXCEPT
                   !.th[t].pc = "read",
                   !.th[t].stats =
                      [total_searches |-> s.total_searches + 1,
                       total_output_chars |-> s.total_output_chars + c,
                       total_estimated_tokens |-> s.total_estimated_tokens + (c \div 4)]]
  /\ UNCHANGED <<now, wt, ignored, commits, tracked, gitFails, indexExists, segs, meta, pc,
                 job, edits, last, since, lastCommit>>

\* write_atomic: stats.json.tmp is written and renamed over stats.json
RsWrite(t) ==
  /\ call.fn = "record_search"
  /\ call.th[t].pc = "read"
  /\ call' = [call EXCEPT !.file = <<call.th[t].stats>>, !.th[t].pc = "written"]
  /\ UNCHANGED <<now, wt, ignored, commits, tracked, gitFails, indexExists, segs, meta, pc,
                 job, edits, last, since, lastCommit>>

\* lock_file.unlock() and the return
RsUnlock(t) ==
  /\ call.fn = "record_search"
  /\ call.th[t].pc = "written"
  /\ call' = [call EXCEPT !.lock = IF @ = t THEN 0 ELSE @,
                          !.th[t].pc = "idle",
                          !.th[t].calls = @ + 1,
                          !.n = @ + 1,
                          !.chars = @ + call.th[t].output_chars,
                          !.tokens = @ + (call.th[t].output_chars \div 4)]
  /\ UNCHANGED <<now, wt, ignored, commits, tracked, gitFails, indexExists, segs, meta, pc,
                 job, edits, last, since, lastCommit>>

NextStats ==
  \E t \in Threads :
     \/ \E c \in OutputChars : RsLock(t, c)
     \/ RsRead(t)
     \/ RsWrite(t)
     \/ RsUnlock(t)

SpecStats == InitStats /\ [][NextStats]_vars

\* ------------------------------------------------------------------ claims
SamePaths(c1, c2) ==
  /\ Range(c1.added) = Range(c2.added)
  /\ Range(c1.modified) = Range(c2.modified)
  /\ Range(c1.deleted) = Range(c2.deleted)

\* The changeset of the running incremental update was detected on the tree
\* as it is now: no file of it has vanished since.
DetectedNow ==
  /\ pc = "inc_detected"
  /\ \A p \in Range(job.changes.added) \cup Range(job.changes.modified) : wt[p].exists

\* Every git subprocess succeeds and no tracked file differs from HEAD.
CleanGit == gitFails = {} /\ DiffLines(HeadTree, WorkTree, PathSeq) = <<>>

\* C1: the committed index holds at most one document for any path.
C1_AtMostOneDocPerPath == \A p \in Paths : DocsOfPath(segs, p) <= 1

\* C2: right after the engine commit of a full build or of an incremental
\* update, every file of the working tree that passes the indexability gates
\* has exactly one document.
C2_IndexableHasOneDoc ==
  pc = "committed" => \A p \in Range(walk_repo) : DocsOfPath(segs, p) = 1

\* C3: an incremental update that follows a full build with no change in
\* between reports added = 0, modified = 0, deleted = 0.
C3_NoChangeIsNoop ==
  since = "built+inc" => last.added = 0 /\ last.modified = 0 /\ last.deleted = 0

\* C4: after a full build in a git repository whose tracked files are
\* unchanged and whose git commands succeed, one untracked file is created
\* and incremental runs twice: the first run reports added = 1, the second
\* added = 0 and modified = 0; an untracked file already in the index is
\* modified only if its mtime exceeds indexed_at, and is never added again.
C4_UntrackedClassifiedOnce ==
  /\ since = "untracked+inc" /\ CleanGit => last.added = 1
  /\ since = "untracked+inc+inc" /\ CleanGit => last.added = 0 /\ last.modified = 0
  /\ DetectedNow /\ job.strat = "git_uncommitted" /\ ~job.gitfail =>
       \A p \in Range(GitUntracked) \cap get_indexed_paths(segs) :
          /\ ~Contains(job.changes.added, p)
          /\ Contains(job.changes.modified, p) =>
               wt[p].mtime > parse_iso8601_to_system_time(meta.indexed_at)

\* C5: in a detected changeset each path is in at most one of added,
\* modified, deleted; a path of the committed changeset stays in the list it
\* was first seen in.
C5_ListsDisjoint ==
  pc = "inc_detected" =>
    /\ Range(job.changes.added) \cap Range(job.changes.modified) = {}
    /\ Range(job.changes.added) \cap Range(job.changes.deleted) = {}
    /\ Range(job.changes.modified) \cap Range(job.changes.deleted) = {}
    /\ job.strat = "git" =>
         LET base == parse_git_diff(meta.git_commit, HEAD,
                                    "diffCommits" \notin gitFails, FALSE)
         IN /\ \A p \in Range(base.added) :
                 ~Contains(job.changes.modified, p) /\ ~Contains(job.changes.deleted, p)
            /\ \A p \in Range(base.modified) :
                 ~Contains(job.changes.added, p) /\ ~Contains(job.changes.deleted, p)
            /\ \A p \in Range(base.deleted) :
                 ~Contains(job.changes.added, p) /\ ~Contains(job.changes.modified, p)

\* C6: no path of the deleted list of a detected changeset is a file of the
\* working tree.
C6_DeletedNotInTree ==
  pc = "inc_detected" => \A p \in Range(job.changes.deleted) : ~wt[p].exists

\* C7: when a file of the modified list cannot be read during application,
\* the commit goes through and the index keeps the documents that path had.
C7_UnreadableKeepsOldDoc ==
  [][pc = "inc_detected" /\ pc' = "committed" =>
       \A p \in job'.unreadable \cap Range(job.changes.modified) :
          \A v \in 1..MaxVer : DocsOf(segs', p, v) = DocsOf(segs, p, v)]_vars

\* C8: when a git subprocess of change detection exits non-zero, detection
\* goes on to the next strategy, the mtime rewalk being the last, and no
\* error is returned: the changeset is the one of the mtime rewalk.
C8_GitFailureFallsBack ==
  /\ DetectedNow /\ job.gitfail =>
       SamePaths(job.changes, detect_changes_mtime(meta, segs, PathSeq))
  /\ pc = "idle" /\ last.op = "inc" /\ last.gitfail /\ since \in {"inc", "inc+inc",
        "built+inc", "untracked+inc", "untracked+inc+inc"} =>
       /\ last.outcome = "ok"
       /\ last.added + last.modified + last.deleted = 0 =>
            SamePaths(EmptyChanges, detect_changes_mtime(meta, segs, PathSeq))

\* C9: a process killed while it writes the new meta.json leaves the prior
\* meta.json complete and readable.
C9_MetaReplacedAtomically ==
  pc = "killed" /\ job.killedAt = "meta_created" /\ job.hadMeta => meta.state = "ok"

\* C10: after a kill during a full build or an incremental update, a reader
\* opens the index and observes the documents of the last successful commit.
C10_KillLeavesLastCommit ==
  pc = "killed" /\ lastCommit.done =>
    /\ indexExists
    /\ \A p \in Paths : \A v \in 1..MaxVer :
         DocsOf(segs, p, v) = DocsOf(lastCommit.segs, p, v)

\* C11: a second process that starts a full build or an incremental update
\* while the writer is held fails with the index-locked error when it asks for
\* the writer, and leaves the index directory and meta.json as they were.
C11_SecondWriterFailsFast ==
  [][pc' = "contended" =>
       /\ job'.second.reached => job'.second.outcome = "locked"
       /\ indexExists' = indexExists
       /\ segs' = segs
       /\ meta' = meta]_vars

\* C12: an incremental update whose changeset is empty returns 0/0/0 at once:
\* it opens no writer (only a non-empty changeset goes on to the application)
\* and leaves the index and meta.json, indexed_at and git_commit included, as
\* they were.
C12_FastPathChangesNothing ==
  [][/\ pc = "idle" /\ pc' = "idle" /\ now' = now /\ edits' = edits
        /\ last'.op = "inc" /\ last'.outcome = "ok" =>
          /\ last'.added = 0 /\ last'.modified = 0 /\ last'.deleted = 0
          /\ segs' = segs /\ indexExists' = indexExists /\ meta' = meta
     /\ pc' = "inc_detected" =>
          Len(job'.changes.added) + Len(job'.changes.modified)
            + Len(job'.changes.deleted) > 0]_vars

\* The fast path was taken although HEAD has moved since the build: meta.json
\* still names the old commit.
C12_Witness ==
  /\ pc = "idle" /\ last.op = "inc" /\ last.outcome = "ok"
  /\ last.added + last.modified + last.deleted = 0
  /\ since \in {"built+inc", "inc", "inc+inc"}
  /\ meta.state = "ok" /\ meta.git_commit # get_git_commit

\* C13: a full build whose walk yields no indexable file returns the
\* no-indexable-files signal and writes no meta.json (nor touches the index);
\* build_index runs only on a non-empty walk.
C13_NoFilesNoMeta ==
  [][/\ pc = "idle" /\ job'.op = "full" => walk_repo # <<>>
     /\ pc = "idle" /\ pc' = "idle" /\ now' = now /\ edits' = edits /\ last'.op = "full" =>
          /\ walk_repo = <<>>
          /\ last'.outcome = "nofiles"
          /\ meta' = meta /\ segs' = segs /\ indexExists' = indexExists]_vars

\* A full build in a directory without indexable files has returned, and
\* there is no meta.json.
C13_Witness ==
  /\ pc = "idle" /\ last.op = "full" /\ last.outcome = "nofiles"
  /\ walk_repo = <<>> /\ meta.state = "none"

\* C14: after a successful full build, and after a successful incremental
\* update that applied changes, file_count of meta.json is the number of
\* documents of the committed index.
C14_FileCountIsDocCount ==
  /\ pc = "idle" /\ last.outcome = "ok"
  /\ last.op = "full" \/ last.added + last.modified + last.deleted > 0
  => /\ meta.state = "ok"
     /\ meta.file_count =
          SumSeq([i \in 1..Len(PathSeq) |-> DocsOfPath(segs, PathSeq[i])])

\* An incremental update has returned and left a segment that still stores
\* a deleted document.
C14_Witness ==
  /\ pc = "idle" /\ last.op = "inc" /\ last.outcome = "ok"
  /\ last.added + last.modified + last.deleted > 0
  /\ \E i \in 1..Len(segs) : NumDocs(segs[i]) < Len(segs[i])
  /\ meta.file_count = 2

\* C15: with a meta.json whose schema_version is not SCHEMA_VERSION, a search
\* and an incremental update both return the schema-mismatch error, whatever
\* the state of the index directory, and leave the index and meta.json as
\* they were.
C15_SchemaMismatch ==
  [][pc = "idle" /\ meta.state = "ok" /\ meta.schema_version # SCHEMA_VERSION =>
       /\ pc' # "inc_detected"
       /\ pc' = "idle" /\ now' = now /\ edits' = edits /\ last'.op \in {"search", "inc"} =>
            /\ last'.outcome = "schema"
            /\ segs' = segs /\ indexExists' = indexExists /\ meta' = meta]_vars

\* An incremental update has returned the schema-mismatch error on an index
\* that holds documents.
C15_Witness ==
  /\ pc = "idle" /\ last.op = "inc" /\ last.outcome = "schema"
  /\ meta.schema_version # SCHEMA_VERSION /\ indexExists /\ TotalNumDocs(segs) > 0

\* C16: every line extract_context emits lies within context_window lines of
\* a line whose lowercased text contains a query token; with a window of 0
\* every emitted line contains a query token itself; the emitted line numbers
\* are strictly increasing.
C16_ContextNearMatch ==
  call.fn = "extract_context" /\ call.done =>
    LET r == call.result.lines
        lines == call.content.lines
        terms == tokenize_query(call.query)
        Dist(a, b) == IF a >= b THEN a - b ELSE b - a
    IN /\ \A k \in 1..Len(r) :
            /\ r[k].line_number \in 1..Len(lines)
            /\ r[k].text = lines[r[k].line_number]
            /\ \E m \in 1..Len(lines) :
                  /\ LineMatches(lines[m], terms)
                  /\ Dist(m, r[k].line_number) <= call.context_window
       /\ call.context_window = 0 => \A k \in 1..Len(r) : LineMatches(r[k].text, terms)
       /\ \A k \in 1..(Len(r) - 1) : r[k].line_number < r[k + 1].line_number

\* A call with a window of 1 has emitted a line that contains no query token,
\* next to one that does.
C16_Witness ==
  /\ call.fn = "extract_context" /\ call.done /\ call.context_window = 1
  /\ Len(call.result.lines) >= 2
  /\ \E k \in 1..Len(call.result.lines) :
       ~LineMatches(call.result.lines[k].text, tokenize_query(call.query))

\* C17: with a cap L > 0 and n lines to include, extract_context returns the
\* first min(n, L) lines of the uncapped result, in ascending order, and
\* truncated_count = max(0, n - L); a cap of 0 gives what an absent cap
\* gives: all n lines and truncated_count = 0.
C17_MaxLinesCap ==
  call.fn = "extract_context" /\ call.done /\ ~call.result.panicked =>
    LET r == call.result
        full == extract_context(call.content, call.query, call.context_window, <<>>, FALSE)
        n == Len(full.lines)
        L == IF call.max_lines = <<>> THEN 0 ELSE call.max_lines[1]
    IN /\ full.truncated_count = 0
       /\ L > 0 => /\ r.lines = SubSeq(full.lines, 1, Min(n, L))
                   /\ r.truncated_count = IF n > L THEN n - L ELSE 0
       /\ L = 0 => r.lines = full.lines /\ r.truncated_count = 0
       /\ \A k \in 1..(Len(r.lines) - 1) :
            r.lines[k].line_number < r.lines[k + 1].line_number

\* A call with a cap of 2 on 3 lines to include has returned 2 lines and
\* truncated_count = 1.
C17_Witness ==
  /\ call.fn = "extract_context" /\ call.done /\ call.max_lines = <<2>>
  /\ Len(call.result.lines) = 2 /\ call.result.truncated_count = 1

\* C18: in the three output modes, when the budget shaper reports
\* budget_exhausted it has emitted at least one whole result and
\* results_omitted = total - emitted > 0; when it does not, results_omitted
\* is 0 and all total_results results are emitted.
C18_BudgetOutcome ==
  call.fn \in {"run", "search"} /\ call.done /\ ~call.result.panicked =>
    LET r == call.result
        total == Len(call.chunks)
        emitted == Len(r.formatted)
    IN /\ r.formatted = SubSeq(call.chunks, 1, emitted)
       /\ r.budget_exhausted =>
            /\ emitted >= 1
            /\ r.results_omitted = total - emitted
            /\ r.results_omitted > 0
            /\ r.trailer = <<r.results_omitted>>
       /\ ~r.budget_exhausted =>
            /\ r.results_omitted = 0
            /\ emitted = total
            /\ r.trailer = <<>>

\* A JSON search of three results under a budget below the envelope estimate
\* has emitted the first result alone and reports two omitted.
C18_Witness ==
  /\ call.fn = "search" /\ call.done /\ call.output_mode = "Json"
  /\ Len(call.chunks) = 3 /\ call.budget = <<1>>
  /\ call.result.budget_exhausted
  /\ Len(call.result.formatted) = 1 /\ call.result.results_omitted = 2

\* C19: a search with a budget of zero gives what the search with no budget
\* gives: every result emitted, budget_exhausted false, results_omitted 0.
C19_ZeroBudgetIsNoBudget ==
  call.fn \in {"run", "search"} /\ call.done /\ call.budget = <<0>> =>
    /\ call.result = search(call.output_mode, call.chunks, <<>>, FALSE)
    /\ call.result.formatted = call.chunks
    /\ ~call.result.budget_exhausted
    /\ call.result.results_omitted = 0

\* The tab-separated fields of a line as git wrote it.
RECURSIVE TabFields(_)
TabFields(s) ==
  LET tabs == {i \in 1..Len(s) : s[i] = "\t"}
  IN IF tabs = {} THEN <<s>>
     ELSE LET i == CHOOSE j \in tabs : \A k \in tabs : j <= k
          IN <<SubSeq(s, 1, i - 1)>> \o TabFields(SubSeq(s, i + 1, Len(s)))

\* A line `<status>\t<path>[\t<new_path>]` with a status that begins with a
\* letter and a path that is not empty, or a line of fewer than two fields.
GitLine(l) ==
  LET f == TabFields(l)
  IN \/ Len(f) < 2
     \/ f[1] # <<>> /\ ~is_whitespace(f[1][1]) /\ f[2] # <<>>

\* What the classification by the first character of status gives for a line.
RECURSIVE Classified(_)
Classified(output) ==
  IF output = <<>> THEN EmptyChanges
  ELSE
    LET f == TabFields(Head(output))
        rest == Classified(Tail(output))
    IN IF Len(f) < 2 THEN rest
       ELSE LET c == f[1][1]
                path == f[2]
                new_path == JoinTabs(SubSeq(f, 3, Len(f)))
            IN IF c = "A" THEN [rest EXCEPT !.added = <<path>> \o @]
               ELSE IF c = "M" THEN [rest EXCEPT !.modified = <<path>> \o @]
               ELSE IF c = "D" THEN [rest EXCEPT !.deleted = <<path>> \o @]
               ELSE IF c = "R" /\ Len(f) >= 3
                 THEN [rest EXCEPT !.deleted = <<path>> \o @, !.added = <<new_path>> \o @]
               ELSE IF c = "R" THEN [rest EXCEPT !.deleted = <<path>> \o @]
               ELSE [rest EXCEPT !.modified = <<path>> \o @]

\* C20: parse_name_status_output puts the path of every line
\* `<status>\t<path>[\t<new_path>]` in the list the first character of status
\* names: A in added, M in modified, D in deleted, R the old path in deleted
\* and the new path in added, any other character in modified; a line of
\* fewer than two tab-separated fields contributes nothing.
C20_ClassifiedByStatus ==
  /\ call.fn = "parse_name_status_output"
  /\ call.done
  /\ \A i \in 1..Len(call.output) : GitLine(call.output[i])
  => call.result = Classified(call.output)

\* C21: extract_symbols returns each declared name once, in the order of the
\* first declaration of each name in the source; for a language tag that is
\* not supported it returns the empty list.
C21_SymbolsDeduplicated ==
  call.fn = "extract_symbols" /\ call.done =>
    LET r == call.result
        declared == SelectSeq(call.nodes, LAMBDA n : n.kind \in DeclKinds(call.lang))
        First(name) == CHOOSE i \in 1..Len(declared) :
                         /\ declared[i].name = name
                         /\ \A j \in 1..(i - 1) : declared[j].name # name
    IN /\ \A i, j \in 1..Len(r) : i # j => r[i] # r[j]
       /\ call.lang \in SupportedLangs =>
            /\ Range(r) = {declared[i].name : i \in 1..Len(declared)}
            /\ \A i, j \in 1..Len(r) : i < j => First(r[i]) < First(r[j])
       /\ call.lang \notin SupportedLangs => r = <<>>

\* A Rust source that declares EventStore, new and EventStore again gives
\* EventStore, new.
C21_Witness ==
  /\ call.fn = "extract_symbols" /\ call.done /\ call.lang = "rust"
  /\ walk("rust", call.nodes) = <<"EventStore", "new", "EventStore">>
  /\ call.result = <<"EventStore", "new">>

\* C22: matched_symbols of a result lists a symbol of symbols_raw if and only
\* if its lowercased name equals one of the lowercased query tokens.
C22_MatchedSymbolsIntersection ==
  call.fn = "format_json" /\ call.done =>
    LET tokens == Range(tokenize_query(call.query))
    IN /\ Range(call.result) \subseteq Range(call.symbols_raw)
       /\ \A k \in 1..Len(call.symbols_raw) :
            call.symbols_raw[k] \in Range(call.result)
              <=> to_lowercase(call.symbols_raw[k]) \in tokens

\* The lines of a hook file that are not blank.
NonBlankLines(f) == SelectSeq(f.lines, LAMBDA l : trim(l) # <<>>)

BlankCount(f) == Len(f.lines) - Len(NonBlankLines(f))

\* Whole cycles of install then remove.
InstallRemoveCycles(ops) ==
  /\ ops # <<>>
  /\ \A i \in 1..Len(ops) : ops[i] = (IF i % 2 = 1 THEN "install" ELSE "remove")
  /\ Len(ops) % 2 = 0

\* C24: for a hook file that exists with user content before `hooks install`,
\* after install then remove the file still exists, every original line is
\* still there in order, no ns marker or hook line is left, and repeated
\* cycles leave no more blank lines than the file had.
C24_InstallRemovePreserves ==
  /\ call.fn = "hooks"
  /\ call.orig.exists
  /\ \E i \in 1..Len(call.orig.lines) :
        LET l == call.orig.lines[i] IN trim(l) # <<>> /\ l[1] \notin {"#!sh", "#!py"}
  /\ InstallRemoveCycles(call.ops)
  => /\ call.file.exists
     /\ NonBlankLines(call.file) = NonBlankLines(call.orig)
     /\ \A i \in 1..Len(call.file.lines) :
           trim(call.file.lines[i]) \notin {NS_MARKER, NS_HOOK_LINE}
     /\ BlankCount(call.file) <= BlankCount(call.orig)

\* C25: once the concurrent calls of record_search have returned, read_stats
\* reports total_searches = the number of calls, total_output_chars = the sum
\* of their output_chars and total_estimated_tokens = the sum of their
\* output_chars / 4.
C25_RecordSearchCumulative ==
  call.fn = "record_search" /\ (\A t \in Threads : call.th[t].pc = "idle") =>
    read_stats(call.file) =
      [total_searches |-> call.n, total_output_chars |-> call.chars,
       total_estimated_tokens |-> call.tokens]

\* Every thread has made all its calls, with outputs whose token estimates
\* do not add up to the estimate of their sum.
C25_Witness ==
  /\ call.fn = "record_search"
  /\ \A t \in Threads : call.th[t].pc = "idle" /\ call.th[t].calls = MaxCalls
  /\ call.n = MaxThreads * MaxCalls
  /\ call.tokens # call.chars \div 4
  /\ read_stats(call.file).total_searches = call.n

\* C26: in the commit of an incremental update, for every modified path the
\* delete_term on the path is issued before the add of its rebuilt document,
\* and the deletes of the deleted list are issued before any add; after the
\* commit the live documents of a modified path are the ones this update
\* added, the rebuilt one among them, and none of the old ones.
C26_DeleteBeforeAdd ==
  [][pc = "inc_detected" /\ pc' = "committed" =>
       LET ops == job'.ops
           Adds(p) == {i \in 1..Len(ops) : ops[i].op = "add" /\ ops[i].path = p}
           Dels(p) == {i \in 1..Len(ops) : ops[i].op = "delete" /\ ops[i].path = p}
           AllAdds == {i \in 1..Len(ops) : ops[i].op = "add"}
       IN /\ \A p \in Range(job.changes.modified) :
               /\ \E j \in Dels(p) : \A i \in Adds(p) : j < i
               /\ DocsOfPath(segs', p) = Cardinality(Adds(p))
               /\ Adds(p) # {} => DocsOf(segs', p, wt[p].ver) >= 1
          /\ \A p \in Range(job.changes.deleted) :
               \E j \in Dels(p) : \A i \in AllAdds : j < i]_vars

\* An update has committed a changeset with a modified and a deleted path; the
\* modified path was indexed before and its rebuilt document was added.
C26_Witness ==
  /\ pc = "committed" /\ job.op = "inc"
  /\ job.changes.modified # <<>> /\ job.changes.deleted # <<>>
  /\ \E i \in 1..Len(job.ops) :
        job.ops[i].op = "add" /\ job.ops[i].path = job.changes.modified[1]
  /\ lastCommit.done

\* The paths that have a live document in the index.
LivePaths(ss) == {p \in Paths : DocsOfPath(ss, p) > 0}

\* C27: on the mtime fallback the changeset is: added = the walked paths not
\* in the index, modified = the paths in both whose mtime is newer than
\* indexed_at, deleted = the indexed paths not in the walk; once it is
\* applied, the indexed paths are the walked paths.
C27_MtimeChangeset ==
  [][/\ (pc = "idle" /\ pc' = "inc_detected" /\ job'.strat = "mtime" =>
          LET ch == job'.changes
              walked == Range(walk_repo)
              indexed_at == parse_iso8601_to_system_time(meta.indexed_at)
          IN /\ Range(ch.added) = walked \ LivePaths(segs)
             /\ Range(ch.modified) =
                  {p \in walked \cap LivePaths(segs) : wt[p].mtime > indexed_at}
             /\ Range(ch.deleted) = LivePaths(segs) \ walked)
     /\ (pc = "inc_detected" /\ pc' = "committed" /\ job.strat = "mtime" /\ DetectedNow =>
          LivePaths(segs') = Range(walk_repo))]_vars

\* C28: when the engine commit of an incremental update fails, the update
\* ends with the error, meta.json keeps its content and a reader still sees
\* the documents of the last commit.
C28_CommitFailureKeepsState ==
  [][pc = "inc_detected" /\ pc' = "idle" =>
       /\ last'.op = "inc" /\ last'.outcome = "engine_error"
       /\ meta' = meta
       /\ segs' = segs
       /\ lastCommit.done => segs' = lastCommit.segs]_vars

\* The commit of an update that had changes to apply has failed, on an index
\* with a document and a readable meta.json.
C28_Witness ==
  /\ pc = "idle" /\ last.op = "inc" /\ last.outcome = "engine_error"
  /\ last.added + last.modified + last.deleted > 0
  /\ meta.state = "ok" /\ segs # <<>>

\* C29: when an incremental update runs right after an incremental update
\* that succeeded, with no change to the working tree or to HEAD in between,
\* it reports added = modified = deleted = 0 and leaves meta.json as it is.
C29_SecondIncrementalIsNoop ==
  [][/\ pc = "idle"
     /\ since \in {"inc", "built+inc", "untracked+inc", "inc+inc", "untracked+inc+inc"}
     /\ now' = now /\ edits' = edits
     /\ pc' = "inc_detected" \/ (pc' = "idle" /\ last'.op = "inc")
     => /\ pc' = "idle"
        /\ last'.outcome = "ok"
        /\ last'.added = 0 /\ last'.modified = 0 /\ last'.deleted = 0
        /\ meta' = meta]_vars

\* C30: a search that runs while an incremental update is under way reports
\* as files_searched the number of documents of the index snapshot it reads.
C30_SearchSeesOneCommit ==
  pc = "contended" /\ job.second.op = "search" /\ job.second.outcome = "ok" =>
    job.seen.files_searched = job.seen.num_docs

====
